---- MODULE Spec2Model ----
(***************************************************************************)
(* Model of cmr/data_loader.py: the per-symbol loader load_data behind the *)
(* MEMORY cache, and the four panel builders load_market_data,             *)
(* load_features, load_ret and load_cov that fan out over the symbols.     *)
(*                                                                         *)
(* Time is counted in calendar months, so that relativedelta(months=6) is  *)
(* exactly LookbackMonths time units; a resample rule is the bucket width  *)
(* in months.  A DataFrame is a sequence (or set) of rows, a row a record  *)
(* of cells; the field na of a row is the set of its columns that hold     *)
(* NaN.  Returns are held in units of 1/RetScale, which is exact for every *)
(* close of the model.                                                     *)
(***************************************************************************)
EXTENDS Integers, Sequences, FiniteSets, TLC

VARIABLES files, cache, result, warned, computed, seen, ncalls, nappends

vars == <<files, cache, result, warned, computed, seen, ncalls, nappends>>

----------------------------------------------------------------------------
(* Bounds of the model *)

\* number of calls of the loader's functions in one behaviour
MaxCalls == 2
\* number of bars the raw store gains in one behaviour
MaxAppends == 1
\* prices are 1..MaxPrice
MaxPrice == 2
\* time of the last bar of a raw file at the start
LastBar == 62

(* Program constants *)

\* data_loader.py:59  len(df) < 30
MinBars == 30
\* data_loader.py:84  relativedelta(months=6)
LookbackMonths == 6

----------------------------------------------------------------------------
(* Arithmetic helpers *)

RECURSIVE Gcd(_, _)
Gcd(a, b) == IF b = 0 THEN a ELSE Gcd(b, a % b)

RECURSIVE LcmUpTo(_)
LcmUpTo(n) == IF n <= 1 THEN 1 ELSE LET l == LcmUpTo(n - 1) IN (l * n) \div Gcd(l, n)

\* the unit of a return is 1/RetScale: every close divides RetScale
RetScale == LcmUpTo(MaxPrice)

MaxOf(S) == CHOOSE x \in S : \A y \in S : y <= x
MinOf(S) == CHOOSE x \in S : \A y \in S : x <= y

\* the sequence f with its elements evaluated: TLC keeps [i \in 1..n |-> e] as
\* an unevaluated expression and evaluates e again at every application
AsSeq(f) == SelectSeq(f, LAMBDA x : TRUE)

\* the same for a function of any domain
AsFcn(f) == f @@ <<>>

RECURSIVE SumSeq(_, _)
SumSeq(s, i) == IF i > Len(s) THEN 0 ELSE s[i] + SumSeq(s, i + 1)

----------------------------------------------------------------------------
(* load_data *)

PriceCols == {"open", "high", "low", "close"}
OHLCV == {"open", "high", "low", "close", "volume"}

\* pd.DataFrame(): no rows, no columns
EmptyFrame == [cols |-> {}, rows |-> <<>>]

\* line 45: df[(df.index >= start) & (df.index < end)]
FilterRange(bars, start, end) ==
    SelectSeq(bars, LAMBDA b : b.time >= start /\ b.time < end)

\* the label of the bucket of width rule that holds time t
Bucket(t, rule) == (t \div rule) * rule

\* lines 49-55, one bucket: open first, high max, low min, close last, volume
\* sum; a bucket without bars has NaN prices and volume 0
Agg(df, b, rule) ==
    LET g == SelectSeq(df, LAMBDA bar : Bucket(bar.time, rule) = b)
    IN  IF g = <<>>
        THEN [time |-> b, open |-> 0, high |-> 0, low |-> 0, close |-> 0,
              volume |-> 0, na |-> PriceCols]
        ELSE [time |-> b,
              open |-> g[1].open,
              high |-> MaxOf({g[i].high : i \in 1..Len(g)}),
              low |-> MinOf({g[i].low : i \in 1..Len(g)}),
              close |-> g[Len(g)].close,
              volume |-> SumSeq([i \in 1..Len(g) |-> g[i].volume], 1),
              na |-> {}]

\* Resample as a grouping that keeps only the buckets that hold a bar
ResampleBarsOnly(df, rule) ==
    IF df = <<>> THEN <<>>
    ELSE LET lo == Bucket(df[1].time, rule)
             hi == Bucket(df[Len(df)].time, rule)
         IN  SelectSeq([i \in 1..((hi - lo) \div rule + 1) |->
                           Agg(df, lo + (i - 1) * rule, rule)],
                       LAMBDA r : r.na = {})

\* lines 49-55: df.resample(rule).agg(...): one row per bucket from the bucket
\* of the first bar to the bucket of the last bar
Resample(df, rule) ==
    IF df = <<>> THEN <<>>
    ELSE LET lo == Bucket(df[1].time, rule)
             hi == Bucket(df[Len(df)].time, rule)
         IN  AsSeq([i \in 1..((hi - lo) \div rule + 1) |->
                        Agg(df, lo + (i - 1) * rule, rule)])

\* one row of DataFrame.ffill(): every NaN cell takes the cell above it
FfillRow(prev, r) ==
    [c \in DOMAIN r |->
        IF c = "na" THEN r.na \cap prev.na
        ELSE IF c \in r.na THEN prev[c] ELSE r[c]]

RECURSIVE FfillFrom(_, _, _)
FfillFrom(rows, i, acc) ==
    IF i > Len(rows) THEN acc
    ELSE FfillFrom(rows, i + 1,
                   Append(acc, IF i = 1 THEN rows[1] ELSE FfillRow(acc[i - 1], rows[i])))

\* line 55 (and line 65): DataFrame.ffill()
Ffill(rows) == FfillFrom(rows, 1, <<>>)

\* line 56: df['ret'] = df.close.pct_change(), NaN in the first row
PctChange(rows) ==
    AsSeq([i \in 1..Len(rows) |->
        IF i = 1
        THEN [time |-> rows[i].time, open |-> rows[i].open, high |-> rows[i].high,
              low |-> rows[i].low, close |-> rows[i].close, volume |-> rows[i].volume,
              ret |-> 0, na |-> rows[i].na \cup {"ret"}]
        ELSE [time |-> rows[i].time, open |-> rows[i].open, high |-> rows[i].high,
              low |-> rows[i].low, close |-> rows[i].close, volume |-> rows[i].volume,
              ret |-> ((rows[i].close - rows[i - 1].close) * RetScale) \div rows[i - 1].close,
              na |-> rows[i].na]])

\* the feature columns of ta.add_all_ta_features that survive
\* dropna(axis=1, how='all').  Of the indicator suite the model keeps one
\* column that is never entirely NaN on MinBars rows (trend_sma_fast) and the
\* parabolic stop pair: trend_psar_up is set while the trend is up (from the
\* third row on), trend_psar_down only after the low of a row has fallen
\* through the stop, which never happens on a constant series and is taken
\* to happen on every other series of the model
PsarReverses(rows) ==
    \E i \in 1..Len(rows) :
        \/ rows[i].low # rows[1].close
        \/ rows[i].high # rows[1].close
        \/ rows[i].close # rows[1].close

\* lines 62-65
AddAllTaFeatures(rows) ==
    {"trend_sma_fast", "trend_psar_up"}
        \cup (IF PsarReverses(rows) THEN {"trend_psar_down"} ELSE {})

\* lines 68-70: df['symbol'] = symbol; set_index(..., append=True).reset_index()
TagSymbol(rows, symbol) ==
    AsSeq([i \in 1..Len(rows) |->
        [time |-> rows[i].time, symbol |-> symbol, open |-> rows[i].open,
         high |-> rows[i].high, low |-> rows[i].low, close |-> rows[i].close,
         volume |-> rows[i].volume, ret |-> rows[i].ret, na |-> rows[i].na]])

\* Undersized without the bar count
EmptyOnly(rows) == rows = <<>>

\* line 59: df.empty or len(df) < 30
Undersized(rows) == rows = <<>> \/ Len(rows) < MinBars

\* lines 39-70, the body of load_data from read_csv on, run on the bars of
\* the symbol's file: warn when the warning of line 60 is emitted
LoadFrame(bars, symbol, start, end, resample_rule) ==
    LET df == PctChange(Ffill(Resample(FilterRange(bars, start, end), resample_rule)))
    IN  IF Undersized(df)
        THEN [warn |-> TRUE, frame |-> EmptyFrame]
        ELSE [warn |-> FALSE,
              frame |-> [cols |-> {"time", "symbol", "ret"} \cup OHLCV
                                     \cup AddAllTaFeatures(df),
                         rows |-> TagSymbol(df, symbol)]]

----------------------------------------------------------------------------
(* The raw bar store and the inputs of the calls *)

Symbols == {"A", "B", "Z"}
SymbolLists == {{"A", "B"}, {"B"}, {"B", "Z"}}
Windows == {2, 4}

\* the first argument load_data gets: start - relativedelta(months=6)
LookbackStart(start) == start - LookbackMonths

\* (start, end, resample_rule) of a call of an entry point: one base request
\* and the three requests that differ from it in one argument
Requests == {<<7, 66, 1>>, <<15, 66, 1>>, <<7, 38, 1>>, <<7, 66, 2>>}

\* (start, end, resample_rule) of the calls of load_data the requests make
LoadRequests == {<<LookbackStart(q[1]), q[2], q[3]>> : q \in Requests}

\* a bar of a constant series, and a bar of a series that swings between 1
\* and MaxPrice and closes where the next bar opens
Bar(t, style) ==
    IF style = "flat"
    THEN [time |-> t, open |-> MaxPrice, high |-> MaxPrice, low |-> MaxPrice,
          close |-> MaxPrice, volume |-> 1]
    ELSE [time |-> t,
          open |-> IF t % 2 = 0 THEN MaxPrice ELSE 1,
          high |-> MaxPrice, low |-> 1,
          close |-> IF t % 2 = 0 THEN 1 ELSE MaxPrice,
          volume |-> 1 + (t % 2)]

\* a file with a bar at every time of first..last that is not in gaps
RawFile(first, last, gaps, style) ==
    SelectSeq([i \in 1..(last - first + 1) |-> Bar(first + i - 1, style)],
              LAMBDA b : b.time \notin gaps)

FilesA == {RawFile(1, LastBar, {12, 13}, "zigzag"), RawFile(9, LastBar, {12, 13}, "zigzag"),
           RawFile(9, LastBar, {}, "flat")}
FilesB == {<<>>, RawFile(5, LastBar, {30}, "zigzag")}

\* the file bars after its source has appended a bar that closes at p
Appended(bars, p) ==
    LET last == bars[Len(bars)]
    IN  Append(bars, [time |-> last.time + 1, open |-> last.close,
                      high |-> IF p > last.close THEN p ELSE last.close,
                      low |-> IF p < last.close THEN p ELSE last.close,
                      close |-> p, volume |-> 1])

\* the contents a file of the store can have after at most n appends
RECURSIVE Grown(_, _)
Grown(S, n) ==
    IF n = 0 THEN S
    ELSE Grown(S \cup {Appended(b, p) : b \in S \ {<<>>}, p \in 1..MaxPrice}, n - 1)

\* the contents the file of symbol s can have in a behaviour
StoreFiles(s) == Grown(IF s = "A" THEN FilesA ELSE FilesB, MaxAppends)

\* LoadFrame on every content of a file and every call of load_data the
\* model makes, evaluated once
LoadFrameTable ==
    [x \in {<<bars, s, q>> : bars \in StoreFiles("A") \cup StoreFiles("B"),
                            s \in {"A", "B"}, q \in LoadRequests} |->
        LoadFrame(x[1], x[2], x[3][1], x[3][2], x[3][3])]

\* lines 36-70, load_data on the raw store f: raised when the symbol has no
\* file (read_csv), else the outcome of the body
load_data(f, symbol, start, end, resample_rule) ==
    IF symbol \notin DOMAIN f
    THEN [raised |-> TRUE, warn |-> FALSE, frame |-> EmptyFrame]
    ELSE LET r == LoadFrameTable[<<f[symbol], symbol, <<start, end, resample_rule>>>>]
         IN  [raised |-> FALSE, warn |-> r.warn, frame |-> r.frame]

----------------------------------------------------------------------------
(* The cache: MEMORY.cache around load_data *)

\* the key of a call: its four arguments
CacheKey(symbol, start, end, resample_rule) == <<symbol, start, end, resample_rule>>

\* line 26: one call of the decorated load_data on cache c and raw store f:
\* a seen key returns the persisted frame and runs nothing, a new key runs
\* the body
CachedLoadData(c, f, symbol, start, end, resample_rule) ==
    LET k == CacheKey(symbol, start, end, resample_rule)
    IN  IF k \in DOMAIN c
        THEN [symbol |-> symbol, raised |-> FALSE, warn |-> FALSE, ran |-> FALSE,
              key |-> k, frame |-> c[k]]
        ELSE LET r == load_data(f, symbol, start, end, resample_rule)
             IN  [symbol |-> symbol, raised |-> r.raised, warn |-> r.warn, ran |-> TRUE,
                  key |-> k, frame |-> r.frame]

\* the cache after the calls of out that ran to completion have stored
\* their frame
Persist(c, out) ==
    LET new == {o \in out : o.ran /\ ~o.raised}
    IN  [k \in DOMAIN c \cup {o.key : o \in new} |->
            IF k \in DOMAIN c THEN c[k]
            ELSE (CHOOSE o \in new : o.key = k).frame]

----------------------------------------------------------------------------
(* The panel builders *)

\* lines 83-84 (100-101, 122-123, 140-141): the parallel map of load_data
\* over the symbols
FanOut(c, f, symbols, start, end, resample_rule) ==
    {CachedLoadData(c, f, s, LookbackStart(start), end, resample_rule) : s \in symbols}

\* pd.concat: the rows of all frames under the union of their columns
Concat(frames) ==
    [cols |-> UNION {fr.cols : fr \in frames},
     rows |-> UNION {{fr.rows[i] : i \in 1..Len(fr.rows)} : fr \in frames}]

\* Clip without the lower limit
ClipEndOnly(rows, start, end) == {r \in rows : r.time <= end}

\* the closing filter of the four builders: start <= time <= end
Clip(rows, start, end) == {r \in rows : r.time >= start /\ r.time <= end}

KeyError == [status |-> "raise", error |-> "KeyError", panel |-> <<>>]

\* lines 85-87
MarketDataView(frames, start, end) ==
    LET df == Concat(frames)
    IN  IF ~({"time", "symbol"} \subseteq df.cols) THEN KeyError
        ELSE IF ~(OHLCV \subseteq df.cols) THEN KeyError
        ELSE [status |-> "ok", error |-> "",
              panel |-> [cols |-> OHLCV,
                         rows |-> Clip({[time |-> r.time, symbol |-> r.symbol,
                                         open |-> r.open, high |-> r.high, low |-> r.low,
                                         close |-> r.close, volume |-> r.volume]
                                        : r \in df.rows}, start, end)]]

PsarCols == {"trend_psar_down", "trend_psar_up"}

\* lines 102-110: DataFrame.drop raises when a label is not a column
FeatureView(frames, start, end) ==
    LET df == Concat(frames)
    IN  IF ~({"time", "symbol"} \subseteq df.cols) THEN KeyError
        ELSE IF ~(OHLCV \subseteq df.cols) THEN KeyError
        ELSE IF ~(PsarCols \subseteq df.cols) THEN KeyError
        ELSE [status |-> "ok", error |-> "",
              panel |-> [cols |-> ((df.cols \ {"time", "symbol"}) \ OHLCV) \ PsarCols,
                         rows |-> Clip({[time |-> r.time, symbol |-> r.symbol,
                                         ret |-> r.ret, na |-> r.na]
                                        : r \in df.rows}, start, end)]]

\* the members of a set of integers in increasing order
Sorted(S) ==
    IF S = {} THEN <<>>
    ELSE LET lo == MinOf(S)
         IN  SelectSeq([i \in 1..(MaxOf(S) - lo + 1) |-> lo + i - 1], LAMBDA t : t \in S)

\* lines 124-125 (142-143): pivot(index='time', columns='symbol',
\* values='ret').fillna(0) and the cash column: one row per time of the
\* frames, one column per symbol that has a row, in time order; the cell of
\* (time, symbol) is the ret of the row with that key, 0 where ret is NaN or
\* there is no such row
ReturnsTable(df) ==
    LET syms == {r.symbol : r \in df.rows}
        times == Sorted({r.time : r \in df.rows})
        cells == {<<r.time, r.symbol, IF "ret" \in r.na THEN 0 ELSE r.ret>> : r \in df.rows}
        rets == {c[3] : c \in cells}
        cell(t, s) ==
            IF \E v \in rets : <<t, s, v>> \in cells
            THEN CHOOSE v \in rets : <<t, s, v>> \in cells
            ELSE 0
    IN  AsSeq([i \in 1..Len(times) |->
            [time |-> times[i],
             vals |-> [s \in syms \cup {"cash"} |->
                          IF s = "cash" THEN 0 ELSE cell(times[i], s)]]])

ClipSeq(rows, start, end) == SelectSeq(rows, LAMBDA r : r.time >= start /\ r.time <= end)

\* lines 124-126
ReturnsView(frames, start, end) ==
    LET df == Concat(frames)
    IN  IF ~({"time", "symbol", "ret"} \subseteq df.cols) THEN KeyError
        ELSE [status |-> "ok", error |-> "",
              panel |-> ClipSeq(ReturnsTable(df), start, end)]

\* the sum over rows lo..hi of the table of column a times column b
RECURSIVE SumProd(_, _, _, _, _)
SumProd(tab, lo, hi, a, b) ==
    IF lo > hi THEN 0 ELSE tab[lo].vals[a] * tab[lo].vals[b] + SumProd(tab, lo + 1, hi, a, b)

RECURSIVE SumCol(_, _, _, _)
SumCol(tab, lo, hi, a) ==
    IF lo > hi THEN 0 ELSE tab[lo].vals[a] + SumCol(tab, lo + 1, hi, a)

\* line 146: rolling(window, min_periods).cov() at row i of the table: the
\* sample covariance of the rows of the window that ends at row i, NaN
\* (defined FALSE) while the window holds fewer than min_periods rows or one
\* row only.  A matrix is held as nobs * sum(ab) - sum(a) * sum(b), which is
\* the covariance times nobs * (nobs - 1) * RetScale^2
RollingCov(tab, i, window, min_periods) ==
    LET lo == IF i - window + 1 < 1 THEN 1 ELSE i - window + 1
        nobs == i - lo + 1
        cols == DOMAIN tab[i].vals
        sum == AsFcn([a \in cols |-> SumCol(tab, lo, i, a)])
    IN  [time |-> tab[i].time,
         defined |-> nobs >= min_periods /\ nobs > 1,
         nobs |-> nobs,
         mat |-> [ab \in cols \X cols |->
                    nobs * SumProd(tab, lo, i, ab[1], ab[2]) - sum[ab[1]] * sum[ab[2]]]]

\* min_periods left at one observation
MinPeriodsOne(window) == 1

\* line 146: min_periods=window
MinPeriods(window) == window

\* lines 142-147: the matrices of the rolling covariance, .dropna() of the
\* undefined ones, in time order
CovView(frames, start, end, window) ==
    LET df == Concat(frames)
    IN  IF ~({"time", "symbol", "ret"} \subseteq df.cols) THEN KeyError
        ELSE LET tab == ReturnsTable(df)
                 all == [i \in 1..Len(tab) |-> RollingCov(tab, i, window, MinPeriods(window))]
             IN  [status |-> "ok", error |-> "",
                  panel |-> ClipSeq(SelectSeq(all, LAMBDA m : m.defined), start, end)]

\* the body of an entry point after the fan-out
ViewOf(op, frames, start, end, window) ==
    CASE op = "load_market_data" -> MarketDataView(frames, start, end)
      [] op = "load_features" -> FeatureView(frames, start, end)
      [] op = "load_ret" -> ReturnsView(frames, start, end)
      [] op = "load_cov" -> CovView(frames, start, end, window)

\* the frames load_data can return for symbol s on request q
FramesOf(s, q) ==
    {LoadFrameTable[<<bars, s, <<LookbackStart(q[1]), q[2], q[3]>>>>].frame
        : bars \in StoreFiles(s)}

\* the lists of frames a fan-out on request q can return
FrameSets(q) ==
    {{a, b} : a \in FramesOf("A", q), b \in FramesOf("B", q)}
        \cup {{b} : b \in FramesOf("B", q)}

\* the inputs of the calls of ViewOf for entry point op with window w
ViewInputs(op, w) ==
    UNION {{<<op, frames, q[1], q[2], w>> : frames \in FrameSets(q)} : q \in Requests}

\* ViewOf on every input of a call the model makes, evaluated once
ViewTable ==
    [x \in ViewInputs("load_market_data", 0) \cup ViewInputs("load_features", 0)
            \cup ViewInputs("load_ret", 0)
            \cup UNION {ViewInputs("load_cov", w) : w \in Windows} |->
        ViewOf(x[1], x[2], x[3], x[4], x[5])]

View(op, frames, start, end, window) == ViewTable[<<op, frames, start, end, window>>]

----------------------------------------------------------------------------
(* State: files is the raw bar store (the bars of every symbol that has a  *)
(* file), cache the persisted frames by key, result what the last call     *)
(* returned or raised, warned the symbols the last call warned about,      *)
(* computed the symbols whose load_data body the last call ran, seen the   *)
(* raw bar store as the last call read it.                                 *)

NoResult == [op |-> "none", symbols |-> {}, start |-> 0, end |-> 0, rule |-> 0,
             window |-> 0, status |-> "none", error |-> "", panel |-> <<>>]

Init ==
    /\ files \in {[s \in {"A", "B"} |-> IF s = "A" THEN a ELSE b] : a \in FilesA, b \in FilesB}
    /\ cache = <<>>
    /\ result = NoResult
    /\ warned = {}
    /\ computed = {}
    /\ seen = files
    /\ ncalls = 0
    /\ nappends = 0

----------------------------------------------------------------------------
(* Actions *)

\* a call of one of the four entry points.  When a worker raises (a symbol
\* without file), Parallel re-raises in the caller; which of the other
\* workers have completed by then is not determined
EntryPoint(op, symbols, start, end, rule, window) ==
    /\ ncalls < MaxCalls
    /\ LET out == FanOut(cache, files, symbols, start, end, rule)
       IN  IF \E o \in out : o.raised
           THEN \E done \in SUBSET {o \in out : ~o.raised} :
                    /\ cache' = Persist(cache, done)
                    /\ warned' = {o.symbol : o \in {x \in done : x.warn}}
                    /\ computed' = {o.symbol : o \in {x \in done : x.ran}}
                    /\ result' = [op |-> op, symbols |-> symbols, start |-> start,
                                  end |-> end, rule |-> rule, window |-> window,
                                  status |-> "raise", error |-> "FileNotFoundError",
                                  panel |-> <<>>]
           ELSE LET v == View(op, {o.frame : o \in out}, start, end, window)
                IN  /\ cache' = Persist(cache, out)
                    /\ warned' = {o.symbol : o \in {x \in out : x.warn}}
                    /\ computed' = {o.symbol : o \in {x \in out : x.ran}}
                    /\ result' = [op |-> op, symbols |-> symbols, start |-> start,
                                  end |-> end, rule |-> rule, window |-> window,
                                  status |-> v.status, error |-> v.error, panel |-> v.panel]
    /\ seen' = files
    /\ ncalls' = ncalls + 1
    /\ UNCHANGED <<files, nappends>>

LoadMarketData ==
    \E symbols \in SymbolLists, q \in Requests :
        EntryPoint("load_market_data", symbols, q[1], q[2], q[3], 0)

LoadFeatures ==
    \E symbols \in SymbolLists, q \in Requests :
        EntryPoint("load_features", symbols, q[1], q[2], q[3], 0)

LoadRet ==
    \E symbols \in SymbolLists, q \in Requests :
        EntryPoint("load_ret", symbols, q[1], q[2], q[3], 0)

LoadCov ==
    \E symbols \in SymbolLists, q \in Requests, window \in Windows :
        EntryPoint("load_cov", symbols, q[1], q[2], q[3], window)

\* a direct call of load_data without the decorator of line 26: every call
\* computes, nothing is persisted
LoadDataUndecorated ==
    \E symbol \in Symbols, q \in LoadRequests :
        /\ ncalls < MaxCalls
        /\ LET r == load_data(files, symbol, q[1], q[2], q[3])
           IN  /\ warned' = IF r.warn THEN {symbol} ELSE {}
               /\ computed' = IF r.raised THEN {} ELSE {symbol}
               /\ result' = [op |-> "load_data", symbols |-> {symbol}, start |-> q[1],
                             end |-> q[2], rule |-> q[3], window |-> 0,
                             status |-> IF r.raised THEN "raise" ELSE "ok",
                             error |-> IF r.raised THEN "FileNotFoundError" ELSE "",
                             panel |-> r.frame]
        /\ seen' = files
        /\ ncalls' = ncalls + 1
        /\ UNCHANGED <<files, nappends, cache>>

\* a direct call of the cached load_data
LoadData ==
    \E symbol \in Symbols, q \in LoadRequests :
        /\ ncalls < MaxCalls
        /\ LET r == CachedLoadData(cache, files, symbol, q[1], q[2], q[3])
           IN  /\ cache' = Persist(cache, {r})
               /\ warned' = IF r.warn THEN {symbol} ELSE {}
               /\ computed' = IF r.ran /\ ~r.raised THEN {symbol} ELSE {}
               /\ result' = [op |-> "load_data", symbols |-> {symbol}, start |-> q[1],
                             end |-> q[2], rule |-> q[3], window |-> 0,
                             status |-> IF r.raised THEN "raise" ELSE "ok",
                             error |-> IF r.raised THEN "FileNotFoundError" ELSE "",
                             panel |-> r.frame]
        /\ seen' = files
        /\ ncalls' = ncalls + 1
        /\ UNCHANGED <<files, nappends>>

\* the environment: the source of a symbol appends one bar after its last
AppendBar ==
    \E symbol \in DOMAIN files, p \in 1..MaxPrice :
        /\ nappends < MaxAppends
        /\ files[symbol] # <<>>
        /\ files' = [files EXCEPT ![symbol] = Appended(@, p)]
        /\ nappends' = nappends + 1
        /\ UNCHANGED <<cache, result, warned, computed, seen, ncalls>>

Next ==
    \/ LoadMarketData
    \/ LoadFeatures
    \/ LoadRet
    \/ LoadCov
    \/ LoadData
    \/ AppendBar

Spec == Init /\ [][Next]_vars

----------------------------------------------------------------------------
(* Properties *)

IsEntry == result.op \in {"load_market_data", "load_features", "load_ret", "load_cov"}

\* the last call was a call of load_data that ran the body and returned
FreshLoad == result.op = "load_data" /\ result.status = "ok" /\ computed = result.symbols

\* the symbol of the last call of load_data
LoadSymbol == CHOOSE s \in result.symbols : TRUE

\* the raw bars of symbol s, as the last call read them, in [start, end)
BarsRead(s, start, end) == FilterRange(seen[s], start, end)

\* no raw bar the last call read lies in the bucket labelled t
NoBarIn(s, t) == \A i \in 1..Len(seen[s]) : Bucket(seen[s][i].time, result.rule) # t

\* C1 (as claimed): in the panel of load_data every bucket that had no raw
\* bar has open = high = low = close = the close of the bucket before it and
\* volume 0
C1_GapFilledWithPreviousClose ==
    FreshLoad =>
        LET rows == result.panel.rows
        IN  \A i \in 2..Len(rows) :
                NoBarIn(LoadSymbol, rows[i].time) =>
                    /\ rows[i].open = rows[i - 1].close
                    /\ rows[i].high = rows[i - 1].close
                    /\ rows[i].low = rows[i - 1].close
                    /\ rows[i].close = rows[i - 1].close
                    /\ rows[i].volume = 0

\* C2 (as claimed): the panel of load_data has a row for every bucket of
\* [start, end)
C2_EveryBucketOfRange ==
    FreshLoad =>
        \A t \in result.start..(result.end - 1) :
            t % result.rule = 0 =>
                \E i \in 1..Len(result.panel.rows) : result.panel.rows[i].time = t

\* the number of buckets from the bucket of the first bar of bars to the
\* bucket of its last bar
SpanBuckets(bars, rule) ==
    IF bars = <<>> THEN 0
    ELSE (Bucket(bars[Len(bars)].time, rule) - Bucket(bars[1].time, rule)) \div rule + 1

\* C2 (amended): the panel of load_data has exactly one row for every bucket
\* from the bucket of the symbol's first raw bar in [start, end) to the
\* bucket of its last raw bar in [start, end), in time order, when these
\* are at least MinBars buckets, and no row otherwise
C2_EveryBucketOfSpan ==
    FreshLoad =>
        LET bars == BarsRead(LoadSymbol, result.start, result.end)
            n == SpanBuckets(bars, result.rule)
            rows == result.panel.rows
        IN  IF n < MinBars THEN rows = <<>>
            ELSE /\ Len(rows) = n
                 /\ \A i \in 1..n :
                        rows[i].time = Bucket(bars[1].time, result.rule) + (i - 1) * result.rule

\* C2 witness: a computed panel with rows, with a bucket that had no raw bar
\* among them, that starts after the first bucket of [start, end) and ends
\* before its last
C2_Witness ==
    /\ FreshLoad
    /\ result.panel.rows # <<>>
    /\ \E i \in 2..Len(result.panel.rows) : NoBarIn(LoadSymbol, result.panel.rows[i].time)
    /\ result.panel.rows[1].time > result.start + result.rule
    /\ result.panel.rows[Len(result.panel.rows)].time < result.end - 2 * result.rule

\* the key of the call of load_data the last entry point made for symbol s
FanOutKey(s) == CacheKey(s, LookbackStart(result.start), result.end, result.rule)

\* the frames the fan-out of the last entry point returned (when no worker
\* raised)
UsedFrames == {cache[FanOutKey(s)] : s \in result.symbols}

\* every symbol of the last call had a file
AllFilesRead == result.symbols \subseteq DOMAIN seen

\* the times of the panel the last entry point returned
PanelTimes ==
    IF result.op \in {"load_market_data", "load_features"}
    THEN {r.time : r \in result.panel.rows}
    ELSE {result.panel[i].time : i \in 1..Len(result.panel)}

\* C3 (as claimed, for load_market_data, load_ret and load_cov): a call
\* raises when a requested symbol has no file and returns a panel otherwise,
\* whatever symbols contribute an empty panel
C3_OnlyMissingFileRaises ==
    (IsEntry /\ result.op # "load_features") =>
        (result.status = "raise" <=> ~AllFilesRead)

\* C5: every time of a panel an entry point returns lies in [start, end],
\* and the frames it is built from were loaded from start - 6 months
C5_Clipped ==
    (IsEntry /\ result.status = "ok") =>
        /\ \A s \in result.symbols : FanOutKey(s) \in DOMAIN cache
        /\ \A t \in PanelTimes : result.start <= t /\ t <= result.end

\* C5 witness: a panel with rows, built from frames that hold rows before
\* start
C5_Witness ==
    /\ IsEntry /\ result.status = "ok"
    /\ PanelTimes # {}
    /\ \E fr \in UsedFrames : \E i \in 1..Len(fr.rows) : fr.rows[i].time < result.start

\* C6 (as claimed): load_ret on symbols that all have a file returns a
\* panel, and its cash column is 0 in every row
C6_CashAlwaysThere ==
    (result.op = "load_ret" /\ AllFilesRead) =>
        /\ result.status = "ok"
        /\ \A i \in 1..Len(result.panel) :
               "cash" \in DOMAIN result.panel[i].vals /\ result.panel[i].vals["cash"] = 0

\* C8 (as claimed, for load_ret): a requested symbol whose frame is empty is
\* a column of the returns panel, 0 in every row
C8_EmptySymbolIsZeroColumn ==
    (result.op = "load_ret" /\ result.status = "ok") =>
        \A s \in result.symbols :
            cache[FanOutKey(s)] = EmptyFrame =>
                \A i \in 1..Len(result.panel) :
                    s \in DOMAIN result.panel[i].vals /\ result.panel[i].vals[s] = 0

\* C9 (as claimed): load_features returns a panel without the OHLCV and the
\* two trend columns whenever some symbol has a frame with rows, also when
\* no frame holds one of the trend columns
C9_TrendColumnsDroppedAlways ==
    (result.op = "load_features" /\ AllFilesRead
        /\ \E s \in result.symbols : cache[FanOutKey(s)] # EmptyFrame) =>
        /\ result.status = "ok"
        /\ result.panel.cols \cap (OHLCV \cup PsarCols) = {}

\* the returns table (with the lookback rows) the last load_cov was computed
\* from
CovInput == ReturnsTable(Concat(UsedFrames))

\* the row of table tab that holds time t
RowOf(tab, t) == CHOOSE i \in 1..Len(tab) : tab[i].time = t

\* the sum over rows lo..hi of tab of (n a - sa) (n b - sb), which for the
\* column sums sa and sb of these n rows is n^2 times their co-moment
RECURSIVE SumDev(_, _, _, _, _, _, _, _)
SumDev(tab, lo, hi, a, b, n, sa, sb) ==
    IF lo > hi THEN 0
    ELSE (n * tab[lo].vals[a] - sa) * (n * tab[lo].vals[b] - sb)
            + SumDev(tab, lo + 1, hi, a, b, n, sa, sb)

\* C7: load_cov emits a matrix only for a time that is at least the
\* window-th row of the returns table, every matrix rests on window rows,
\* the first emitted matrix is the covariance of exactly the window rows
\* that end at its time, and no time with fewer rows has a matrix
C7_WindowFullyPopulated ==
    (result.op = "load_cov" /\ result.status = "ok") =>
        LET tab == CovInput
            w == result.window
            out == result.panel
        IN  /\ \A j \in 1..Len(out) :
                   RowOf(tab, out[j].time) >= w /\ out[j].nobs = w
            /\ \A i \in 1..Len(tab) : i < w => tab[i].time \notin PanelTimes
            /\ out # <<>> =>
                   LET p == RowOf(tab, out[1].time)
                       cols == DOMAIN tab[p].vals
                   IN  \A a \in cols, b \in cols :
                           w * out[1].mat[<<a, b>>]
                               = SumDev(tab, p - w + 1, p, a, b, w,
                                        SumCol(tab, p - w + 1, p, a),
                                        SumCol(tab, p - w + 1, p, b))

\* C7 witness: load_cov returned matrices, the first for the window-th row
\* of the returns table, and the rows before it lie in [start, end] and have
\* none
C7_Witness ==
    /\ result.op = "load_cov" /\ result.status = "ok"
    /\ result.panel # <<>>
    /\ RowOf(CovInput, result.panel[1].time) = result.window
    /\ CovInput[1].time >= result.start
    /\ \E a \in DOMAIN result.panel[1].mat : result.panel[1].mat[a] # 0

\* the bars of symbol s in the range the last entry point loaded span fewer
\* than MinBars buckets
ThinData(s) ==
    SpanBuckets(BarsRead(s, LookbackStart(result.start), result.end), result.rule) < MinBars

\* C10 (as claimed): every call of an entry point warns about every symbol
\* whose lookback-extended data is empty or below MinBars
C10_EveryCallWarns ==
    (IsEntry /\ AllFilesRead) =>
        \A s \in result.symbols : ThinData(s) => s \in warned

\* C10 (amended): a call of an entry point warns about such a symbol when,
\* and only when, the symbol's key is not in the cache before the call; a
\* call that is served from the cache warns about nothing
C10_WarnsWhenNotCached ==
    [][(IsEntry' /\ AllFilesRead' /\ ncalls' # ncalls) =>
          \A s \in result'.symbols :
              s \in warned' <=> (ThinData(s)' /\ FanOutKey(s)' \notin DOMAIN cache)]_vars

\* C10 witness: an entry point was served the empty frame of a symbol with
\* thin data from the cache and did not warn
C10_Witness ==
    /\ IsEntry /\ AllFilesRead
    /\ \E s \in result.symbols : ThinData(s) /\ s \notin computed /\ s \notin warned

\* the frame a computation of load_data with the arguments of the last call
\* returns on the raw store as that call read it
FreshFrame ==
    load_data(seen, LoadSymbol, result.start, result.end, result.rule).frame

\* C4 (as claimed): a call of load_data returns what a computation of
\* load_data with its arguments returns at that moment, also when it is
\* served from the cache
C4_CacheHitEqualsFresh ==
    (result.op = "load_data" /\ result.status = "ok") => result.panel = FreshFrame

\* C4 (amended): a call of load_data whose four arguments are those of an
\* earlier completed call returns the frame persisted for them, runs
\* nothing and leaves the cache as it is; a call with four arguments not
\* seen before computes the frame on the raw store of that moment and
\* persists it under these four arguments; no persisted frame ever changes
C4_CacheHitReturnsPersisted ==
    [][(result'.op = "load_data" /\ result'.status = "ok" /\ ncalls' # ncalls) =>
          LET k == <<LoadSymbol', result'.start, result'.end, result'.rule>>
          IN  /\ \A j \in DOMAIN cache : j \in DOMAIN cache' /\ cache'[j] = cache[j]
              /\ IF k \in DOMAIN cache
                 THEN /\ result'.panel = cache[k]
                      /\ computed' = {}
                      /\ cache' = cache
                 ELSE /\ result'.panel = FreshFrame'
                      /\ computed' = result'.symbols
                      /\ DOMAIN cache' = DOMAIN cache \cup {k}
                      /\ cache'[k] = result'.panel]_vars

\* C4 witness: a second call of load_data with the four arguments of the
\* first was served the persisted frame, which lacks the bar the source
\* gained between the two calls
C4_Witness ==
    /\ result.op = "load_data" /\ result.status = "ok"
    /\ ncalls = 2 /\ nappends = 1
    /\ computed = {}
    /\ result.panel.rows # <<>> /\ result.panel # FreshFrame
    /\ DOMAIN cache = {<<LoadSymbol, result.start, result.end, result.rule>>}

====
